---- MODULE Spec2Model ----
(***************************************************************************)
(* Model of pipeline_dp/pipeline_operations.py: the sequential backend     *)
(* (LocalPipelineOperations), the lazy pool-backed iterators               *)
(* (_LazyMultiProcIterator and its two subclasses) and the parallel        *)
(* backend built on them (MultiProcLocalPipelineOperations).               *)
(*                                                                         *)
(* One behaviour of Spec is one operator call on the parallel backend:     *)
(* the caller picks the operator and its arguments (Init), the main thread *)
(* runs the operator's code, pool workers run the task function on the     *)
(* dispatched elements in any interleaving, and the caller consumes the    *)
(* returned handle.  The sequential backend is given as operators.         *)
(***************************************************************************)
EXTENDS Integers, Sequences, FiniteSets, Bags, TLC

\* ------------------------------------------------------------------ bounds
MaxLen      == 2      \* longest input collection
HostCpus    == 2      \* os.cpu_count() of the host
MaxAttempts == 2      \* iteration attempts the caller makes on a handle

Keys  == {1, 2}
Vals  == {1, 2}
Pairs == Keys \X Vals
None  == 0            \* Python's None for n_jobs / chunksize

JobsChoices  == {None, 1, 2}   \* n_jobs the engine is configured with
ChunkChoices == {1, 2}         \* chunksize the engine is configured with
NChoices     == {1, 2}         \* n of sample_fixed_per_key

SetMax(S) == CHOOSE x \in S : \A y \in S : y <= x
Workers == 1..SetMax({HostCpus} \cup JobsChoices \cup ChunkChoices)

\* stage 1: the map handle that produced col (when col is such a handle)
\* stage 2: the iterator the operator creates
\* stage 3: the second iterator of sample_fixed_per_key
Stages == 1..3

SeqsUpTo(S, n) == UNION {[1..m -> S] : m \in 0..n}

RECURSIVE SumSeq(_)
SumSeq(s) == IF s = <<>> THEN 0 ELSE Head(s) + SumSeq(Tail(s))

RECURSIVE Concat(_)
Concat(ss) == IF ss = <<>> THEN <<>> ELSE Head(ss) \o Concat(Tail(ss))

RECURSIVE SeqToBag(_)
SeqToBag(s) == IF s = <<>> THEN EmptyBag ELSE SetToBag({Head(s)}) (+) SeqToBag(Tail(s))

Range(s) == {s[i] : i \in DOMAIN s}

SelectIdx(s, I) == \* the subsequence of s at the positions in I, in order
  LET F[i \in 0..Len(s)] ==
        IF i = 0 THEN <<>>
        ELSE IF i \in I THEN Append(F[i-1], s[i]) ELSE F[i-1]
  IN F[Len(s)]

\* --------------------------------------------------- results and exceptions
Ok(v)     == [ok |-> TRUE,  val |-> v,  exc |-> "none"]
Raise(e)  == [ok |-> FALSE, val |-> 0,  exc |-> e]
WrapAll(s) == [i \in DOMAIN s |-> Ok(s[i])]

\* ---------------------------------------------------- caller's functions
\* The functions a caller passes as fn.  Results are Python ints; a filter
\* keeps a row when the result is truthy (non-zero).
Fns == {"ident", "is_one", "not_one", "raise_on_one"}

FnApply(f, x) ==
  CASE f = "ident"        -> Ok(x)
    [] f = "is_one"       -> Ok(IF x = 1 THEN 1 ELSE 0)
    [] f = "not_one"      -> Ok(IF x = 1 THEN 0 ELSE 1)
    [] f = "raise_on_one" -> IF x = 1 THEN Raise("ValueError") ELSE Ok(x)

Truthy(v) == v # 0

\* data_extractors.partition_extractor: rows are (key, value) pairs
partition_extractor(row) == row[1]

\* accumulator.merge(accumulators): folds the accumulator's commutative,
\* associative merge over an iterable of accumulators.  Accumulators are
\* modelled as integers under addition; a bare accumulator is not iterable.
merge(accs) == SumSeq(accs)


\* ===================================================== sequential backend
\* LocalPipelineOperations.  A lazily evaluated result is given as the
\* sequence of per-element outcomes the consumer meets, in order.

RECURSIVE DistinctSeq(_)
DistinctSeq(s) == \* distinct elements in order of first occurrence
  IF s = <<>> THEN <<>>
  ELSE LET r == DistinctSeq(SubSeq(s, 1, Len(s) - 1))
       IN IF s[Len(s)] \in Range(r) THEN r ELSE Append(r, s[Len(s)])

ValuesOf(c, k) == SelectIdx([i \in DOMAIN c |-> c[i][2]], {i \in DOMAIN c : c[i][1] = k})

CountOf(c, x) == Cardinality({i \in DOMAIN c : c[i] = x})

LocalMap(c, f) == [i \in DOMAIN c |-> FnApply(f, c[i])]

LocalMapValues(c, f) ==
  [i \in DOMAIN c |-> LET r == FnApply(f, c[i][2])
                      IN IF r.ok THEN Ok(<<c[i][1], r.val>>) ELSE r]

LocalFilter(c, f) ==
  SelectIdx(c, {i \in DOMAIN c : Truthy(FnApply(f, c[i]).val)})

LocalGroupByKey(c) ==
  LET ks == DistinctSeq([i \in DOMAIN c |-> c[i][1]])
  IN [j \in DOMAIN ks |-> <<ks[j], ValuesOf(c, ks[j])>>]

\* keys_to_keep is [none |-> TRUE] for Python's None, else carries the set
LocalFilterByKey(c, ktk) ==
  IF c = <<>> THEN Ok(<<>>)
  ELSE IF ktk.none THEN Raise("TypeError")
  ELSE Ok(LET kept == SelectIdx(c, {i \in DOMAIN c : partition_extractor(c[i]) \in ktk.set})
          IN [i \in DOMAIN kept |-> <<partition_extractor(kept[i]), kept[i]>>])

LocalCountPerElement(c) ==
  LET ks == DistinctSeq(c)
  IN [j \in DOMAIN ks |-> <<ks[j], CountOf(c, ks[j])>>]

\* the samples random.sample(values, m) / np.random.choice(.., replace=False)
\* can return: m values at pairwise distinct positions, in any order
SamplesOf(values, m) ==
  {[j \in 1..m |-> values[idx[j]]] :
     idx \in {g \in [1..m -> DOMAIN values] : \A a, b \in 1..m : a # b => g[a] # g[b]}}

SampleResults(values, m) ==
  IF Len(values) > m THEN SamplesOf(values, m) ELSE {values}

LocalSampleFixedPerKey(c, m) == \* the set of results the generator can yield
  LET g == LocalGroupByKey(c)
  IN {r \in [DOMAIN g -> Keys \X SeqsUpTo(Vals, MaxLen + 1)] :
        \A j \in DOMAIN g : /\ r[j][1] = g[j][1]
                            /\ r[j][2] \in SampleResults(g[j][2], m)}

LocalReduceAccumulatorsPerKey(c) == Raise("NotImplementedError")

\* ================================================================== state
VARIABLES
  op,            \* the operator the caller invokes
  col,           \* the elements of the input collection
  colKind,       \* "list" (re-iterable), "iter" (single-pass), "lazy" (map handle)
  fn,            \* the caller's function (map fn / filter predicate)
  keys_to_keep,  \* filter_by_key's public partitions, or None
  n,             \* sample_fixed_per_key's n
  n_jobs,        \* MultiProcLocalPipelineOperations.n_jobs
  chunksize,     \* MultiProcLocalPipelineOperations.chunksize
  colPos,        \* elements already taken from a single-pass col
  st,            \* the _LazyMultiProcIterator instances
  pc,            \* where the main thread is
  row,           \* zip's current row of col
  zipCur,        \* position of zip's iterator over a list col
  keys,          \* the local `keys` of group_by_key / count_per_element
  store,         \* the manager dict results_dict
  manager,       \* "none", "alive" or "down": the mp.Manager of the call
  items,         \* the local `items` / `groups`
  ret,           \* what the call returned: "none", "handle", "genexpr" or "list"
  handle,        \* the _LazyMultiProcIterator the caller holds (0: none)
  genCur,        \* position of the current generator over an ordered list
  attempts,      \* iteration attempts made on the returned handle
  observed,      \* elements the current attempt delivered to the caller
  ended,         \* the attempts that ended: how ("stop"/"raise") and what they delivered
  error,         \* the exception surfaced to the caller ("none" if none)
  errorAt        \* "call" or "consume": when the exception surfaced

inputs == <<op, col, colKind, fn, keys_to_keep, n, n_jobs, chunksize>>
vars == <<op, col, colKind, fn, keys_to_keep, n, n_jobs, chunksize, colPos, st,
          pc, row, zipCur, keys, store, manager, items, ret, handle, genCur,
          attempts, observed, ended, error, errorAt>>

IdleW == [id |-> 0, rest |-> <<>>, acc |-> <<>>, reg |-> -1]

\* _LazyMultiProcIterator.__init__ leaves _outputs None; nothing else exists.
\* func[w] is the module global _pool_current_func of worker process w of
\* the stage's pool ("none": Python's None, the value before the initializer)
NoStage ==
  [flavor |-> "none", job |-> "none", job_inputs |-> "none",
   n_jobs |-> None, chunksize |-> None, outputs |-> "None",
   pools |-> 0, func |-> [w \in Workers |-> "none"],
   dispatched |-> 0, fedPos |-> 0, fedAll |-> FALSE,
   nchunks |-> 0, taskq |-> <<>>, busy |-> [w \in Workers |-> IdleW],
   finished |-> <<>>, pos |-> 0, list |-> <<>>]

NewStage(flavor, job, job_inputs, nj, cs) ==
  [NoStage EXCEPT !.flavor = flavor, !.job = job, !.job_inputs = job_inputs,
                  !.n_jobs = nj, !.chunksize = cs]

KeyedOps == {"map_values", "filter_by_key", "group_by_key",
             "sample_fixed_per_key", "reduce_accumulators_per_key"}
\* "ordered_map" is the order-preserving iterator used on its own:
\* _LazyMultiProcOrderedMapIterator(fn, col, n_jobs, chunksize)
PlainOps == {"map", "filter", "count_per_element", "ordered_map"}
Ops == KeyedOps \cup PlainOps

NoKeys == [none |-> TRUE, set |-> {}]
KeySets == {[none |-> FALSE, set |-> S] : S \in SUBSET Keys}

Init ==
  /\ op \in Ops
  /\ col \in IF op \in KeyedOps THEN SeqsUpTo(Pairs, MaxLen) ELSE SeqsUpTo(Vals, MaxLen)
  /\ colKind \in {"list", "iter", "lazy"}
  /\ fn \in IF op \in {"map", "map_values", "filter", "ordered_map"} THEN Fns ELSE {"ident"}
  /\ keys_to_keep \in IF op = "filter_by_key" THEN KeySets \cup {NoKeys} ELSE {NoKeys}
  /\ n \in IF op = "sample_fixed_per_key" THEN NChoices ELSE {0}
  \* n_jobs is read by filter, filter_by_key and the ordered iterator only
  /\ n_jobs \in IF op \in {"filter", "filter_by_key", "ordered_map"}
                THEN JobsChoices ELSE {None}
  /\ chunksize \in ChunkChoices
  /\ colPos = 0
  \* a col that is the handle of an earlier map of this engine: created, not consumed
  /\ st = [s \in Stages |->
             IF s = 1 /\ colKind = "lazy"
             THEN NewStage("unordered", "ident", "base", None, chunksize)
             ELSE NoStage]
  /\ pc = "start"
  /\ row = 0
  /\ zipCur = 0
  /\ keys = {}
  /\ store = <<>>
  /\ manager = "none"
  /\ items = <<>>
  /\ ret = "none"
  /\ handle = 0
  /\ genCur = 0
  /\ attempts = 0
  /\ observed = <<>>
  /\ ended = <<>>
  /\ error = "none"
  /\ errorAt = "none"


\* ======================================================== the worker pool
\* mp.Pool(processes): os.cpu_count() workers when processes is None
NumProcs(g) == IF g.n_jobs = None THEN HostCpus ELSE g.n_jobs

\* Pool.map's default chunksize: ceil(len / (4 * processes))
MapChunk(len, procs) ==
  LET d == len \div (4 * procs) IN IF len % (4 * procs) = 0 THEN d ELSE d + 1

RECURSIVE Chunks(_, _, _)
Chunks(seq, c, firstId) == \* Pool._get_tasks: consecutive batches of c elements
  IF seq = <<>> THEN <<>>
  ELSE LET k == IF Len(seq) < c THEN Len(seq) ELSE c
       IN <<[id |-> firstId, elems |-> SubSeq(seq, 1, k)]>>
          \o Chunks(SubSeq(seq, k + 1, Len(seq)), c, firstId + 1)

\* a result iterator that hands out one result per finished batch
ArrivalsOnePerBatch(g) ==
  Concat([i \in DOMAIN g.finished |->
            IF g.finished[i].ok THEN WrapAll(SubSeq(g.finished[i].vals, 1, 1))
            ELSE <<Raise(g.finished[i].exc)>>])

\* what the result iterator of imap_unordered hands out, in arrival order:
\* the results of a finished batch together, a failed batch as its exception
Arrivals(g) ==
  Concat([i \in DOMAIN g.finished |->
            IF g.finished[i].ok THEN WrapAll(g.finished[i].vals)
            ELSE <<Raise(g.finished[i].exc)>>])

StageComplete(g) == g.fedAll /\ Len(g.finished) = g.nchunks

\* a result list put together in the order the batches finished
OrderedListArrival(g, i) ==
  Concat([j \in DOMAIN g.finished |-> g.finished[j].vals])

\* Pool.map's result: the batches' results in submission order
RECURSIVE OrderedList(_, _)
OrderedList(g, i) ==
  IF i > g.nchunks THEN <<>>
  ELSE (CHOOSE f \in Range(g.finished) : f.id = i).vals \o OrderedList(g, i + 1)

\* ------------------------------------------------------------ the inputs
IsLazy(src) == src = "col" /\ colKind = "lazy"

SrcSeq(src) == \* the elements the input has produced so far
  CASE src = "base"   -> col
    [] src = "groups" -> items
    [] src = "col"    -> IF colKind = "lazy"
                         THEN [i \in DOMAIN Arrivals(st[1]) |-> Arrivals(st[1])[i].val]
                         ELSE col

\* an input that reports its end without waiting for the stage behind it
SrcDoneNoWait(src) == TRUE

\* the input has handed out its last element: for a map handle, when the
\* result iterator of its pool is exhausted
SrcDone(src) == IsLazy(src) => StageComplete(st[1])

\* a list is iterated from its start by every iteration; an iterator and the
\* result iterator of a map handle are shared by all who iterate them
SrcPos(src, private) ==
  IF src = "col" /\ colKind = "iter" THEN colPos
  ELSE IF IsLazy(src) THEN st[1].pos
  ELSE private

Advance(stf, src, q) == IF IsLazy(src) THEN [stf EXCEPT ![1].pos = q] ELSE stf
AdvanceCol(src, q) == IF src = "col" /\ colKind = "iter" THEN q ELSE colPos

\* -------------------------------------------------------- task functions
JobResults(job, x) ==
  CASE job = "ident"      -> {Ok(x)}
    [] job = "fn"         -> {FnApply(fn, x)}
    [] job = "map_values" -> {LET r == FnApply(fn, x[2])
                              IN IF r.ok THEN Ok(<<x[1], r.val>>) ELSE r}
    [] job = "merge"      -> {Ok(<<x[1], merge(<<x[2]>>)>>),
                              [Ok(<<x[1], x[2]>>) EXCEPT !.ok = FALSE, !.exc = "TypeError"]}
    [] job = "key_keep"   -> {IF keys_to_keep.none THEN Raise("TypeError")
                              ELSE Ok(<<partition_extractor(x),
                                        partition_extractor(x) \in keys_to_keep.set>>)}
    [] job = "sample"     -> {Ok(<<x[1], smp>>) : smp \in SampleResults(x[2], n)}

\* a task function kept in one global that the workers of all pools share
init_pool_shared_global(stf, s) ==
  [t \in Stages |->
     IF t = s
     THEN [stf[t] EXCEPT !.pools = @ + 1,
                         !.func  = [w \in Workers |->
                                      IF w \in 1..NumProcs(stf[s]) THEN stf[s].job
                                      ELSE "none"]]
     ELSE [stf[t] EXCEPT !.func = [w \in Workers |->
                                     IF @[w] = "none" THEN "none" ELSE stf[s].job]]]

\* _init_pool: mp.Pool(self.n_jobs, initializer=_pool_worker_init,
\* initargs=(self.job,)) starts the pool's worker processes, and each of them
\* runs _pool_worker_init(job), which sets its own _pool_current_func
init_pool(stf, s) ==
  [stf EXCEPT ![s].pools = @ + 1,
              ![s].func  = [w \in Workers |->
                              IF w \in 1..NumProcs(stf[s]) THEN stf[s].job ELSE "none"]]

\* the pools of a stage that have been instantiated and not torn down: the
\* iterators use the pool returned by _init_pool as a temporary and never
\* call close, terminate or join on it, nor use it as a context manager
LivePools(g) == g.pools

\* _LazyMultiProcMapIterator._trigger_iterations
TriggerUnordered(stf, s) ==
  IF stf[s].outputs = "None"
  THEN [init_pool(stf, s) EXCEPT ![s].outputs = "iter", ![s].dispatched = @ + 1]
  ELSE stf

\* the first two lines of _LazyMultiProcIterator.__iter__: the input's
\* _trigger_iterations when the input is a _LazyMultiProcIterator
Cascade(stf, s) ==
  IF IsLazy(stf[s].job_inputs) THEN TriggerUnordered(stf, 1) ELSE stf

\* the pool's task thread takes the next batch of imap_unordered's input
Feed(s) ==
  LET g     == st[s]
      src   == g.job_inputs
      seq   == SrcSeq(src)
      p     == SrcPos(src, g.fedPos)
      avail == Len(seq) - p
      k     == IF avail >= g.chunksize THEN g.chunksize ELSE avail
      q     == p + k
  IN /\ g.flavor = "unordered" /\ g.outputs = "iter" /\ ~g.fedAll
     /\ avail >= g.chunksize \/ SrcDone(src)
     /\ st' = [Advance(st, src, q) EXCEPT
                 ![s].fedPos  = q,
                 ![s].fedAll  = SrcDone(src) /\ q = Len(seq),
                 ![s].nchunks = IF k > 0 THEN @ + 1 ELSE @,
                 ![s].taskq   = IF k > 0
                                THEN Append(@, [id |-> g.nchunks + 1,
                                                elems |-> SubSeq(seq, p + 1, q)])
                                ELSE @]
     /\ colPos' = AdvanceCol(src, q)
     /\ UNCHANGED <<inputs, pc, row, zipCur, keys, store, manager, items, ret,
                    handle, genCur, attempts, observed, ended, error, errorAt>>

\* an idle worker of the stage's pool takes the next batch
WorkerTake(s, w) ==
  LET g == st[s]
  IN /\ g.pools > 0 /\ w \in 1..NumProcs(g)
     /\ g.busy[w] = IdleW /\ g.taskq # <<>>
     /\ \A v \in 1..(w - 1) : g.busy[v] # IdleW   \* idle workers are alike
     /\ st' = [st EXCEPT ![s].taskq = Tail(@),
                         ![s].busy[w] = [id |-> Head(g.taskq).id,
                                         rest |-> Head(g.taskq).elems,
                                         acc |-> <<>>, reg |-> -1]]
     /\ UNCHANGED <<inputs, colPos, pc, row, zipCur, keys, store, manager, items,
                    ret, handle, genCur, attempts, observed, ended, error, errorAt>>

\* a worker that collects the results of its batch newest first
AfterElementNewestFirst(s, w, r) ==
  LET b == st[s].busy[w]
      acc2 == <<r.val>> \o b.acc
  IN IF ~r.ok
     THEN [st EXCEPT ![s].busy[w] = IdleW,
                     ![s].finished = Append(@, [id |-> b.id, ok |-> FALSE,
                                                vals |-> <<>>, exc |-> r.exc])]
     ELSE IF Len(b.rest) = 1
     THEN [st EXCEPT ![s].busy[w] = IdleW,
                     ![s].finished = Append(@, [id |-> b.id, ok |-> TRUE,
                                                vals |-> acc2, exc |-> "none"])]
     ELSE [st EXCEPT ![s].busy[w] = [b EXCEPT !.rest = Tail(@), !.acc = acc2, !.reg = -1]]

\* the outcome of one element in the worker: the batch goes on, ends or fails
AfterElement(s, w, r) ==
  LET b == st[s].busy[w]
      acc2 == Append(b.acc, r.val)
  IN IF ~r.ok
     THEN [st EXCEPT ![s].busy[w] = IdleW,
                     ![s].finished = Append(@, [id |-> b.id, ok |-> FALSE,
                                                vals |-> <<>>, exc |-> r.exc])]
     ELSE IF Len(b.rest) = 1
     THEN [st EXCEPT ![s].busy[w] = IdleW,
                     ![s].finished = Append(@, [id |-> b.id, ok |-> TRUE,
                                                vals |-> acc2, exc |-> "none"])]
     ELSE [st EXCEPT ![s].busy[w] = [b EXCEPT !.rest = Tail(@), !.acc = acc2, !.reg = -1]]

\* _pool_worker(row): the worker applies its _pool_current_func to the row;
\* here a task function without side effects
WorkerApply(s, w) ==
  LET g == st[s]
      b == g.busy[w]
  IN /\ b.id # 0
     /\ g.func[w] \notin {"insert_row", "count_row"}
     /\ \E r \in JobResults(g.func[w], Head(b.rest)) : st' = AfterElement(s, w, r)
     /\ UNCHANGED <<inputs, colPos, pc, row, zipCur, keys, store, manager, items,
                    ret, handle, genCur, attempts, observed, ended, error, errorAt>>


\* an append that lands on a copy of the key's list, not on the stored list
WorkerInsertOnCopy(s, w) ==
  LET g == st[s]
      b == g.busy[w]
      x == Head(b.rest)
  IN /\ b.id # 0 /\ g.func[w] = "insert_row"
     /\ store' = store
     /\ st' = AfterElement(s, w, IF manager = "alive" /\ x[1] \in DOMAIN store
                                 THEN Ok(None) ELSE Raise("KeyError"))
     /\ UNCHANGED <<inputs, colPos, pc, row, zipCur, keys, manager, items,
                    ret, handle, genCur, attempts, observed, ended, error, errorAt>>

\* results_dict_[key].append(val): one call executed by the manager process
WorkerInsert(s, w) ==
  LET g == st[s]
      b == g.busy[w]
      x == Head(b.rest)
  IN /\ b.id # 0 /\ g.func[w] = "insert_row"
     /\ IF manager = "alive" /\ x[1] \in DOMAIN store
        THEN /\ store' = [store EXCEPT ![x[1]] = Append(@, x[2])]
             /\ st' = AfterElement(s, w, Ok(None))
        ELSE /\ store' = store
             /\ st' = AfterElement(s, w, Raise("KeyError"))
     /\ UNCHANGED <<inputs, colPos, pc, row, zipCur, keys, manager, items,
                    ret, handle, genCur, attempts, observed, ended, error, errorAt>>

\* results_dict_[key] += 1 is two calls to the manager process: the read ...
WorkerCountRead(s, w) ==
  LET g == st[s]
      b == g.busy[w]
      x == Head(b.rest)
  IN /\ b.id # 0 /\ g.func[w] = "count_row" /\ b.reg = -1
     /\ IF manager = "alive" /\ x \in DOMAIN store
        THEN st' = [st EXCEPT ![s].busy[w].reg = store[x]]
        ELSE st' = AfterElement(s, w, Raise("KeyError"))
     /\ UNCHANGED <<inputs, colPos, pc, row, zipCur, keys, store, manager, items,
                    ret, handle, genCur, attempts, observed, ended, error, errorAt>>

\* ... and the write of the value read plus one
WorkerCountWrite(s, w) ==
  LET g == st[s]
      b == g.busy[w]
      x == Head(b.rest)
  IN /\ b.id # 0 /\ g.func[w] = "count_row" /\ b.reg # -1
     /\ store' = [store EXCEPT ![x] = b.reg + 1]
     /\ st' = AfterElement(s, w, Ok(None))
     /\ UNCHANGED <<inputs, colPos, pc, row, zipCur, keys, manager, items,
                    ret, handle, genCur, attempts, observed, ended, error, errorAt>>

\* ============================================================ main thread
Ended(how, out, exc) == [how |-> how, out |-> out, exc |-> exc]

\* a map that starts its pool in the call instead of at the first iteration
CallMapEager ==
  /\ pc = "start"
  /\ op \in {"map", "map_values", "reduce_accumulators_per_key", "ordered_map"}
  /\ st' = TriggerUnordered(
              [st EXCEPT ![2] = NewStage("unordered",
                                         IF op = "map_values" THEN "map_values" ELSE "fn",
                                         "col", None, chunksize)], 2)
  /\ ret' = "handle" /\ handle' = 2 /\ pc' = "returned"
  /\ UNCHANGED <<inputs, colPos, row, zipCur, keys, store, manager, items, genCur,
                 attempts, observed, ended, error, errorAt>>

\* MultiProcLocalPipelineOperations.map / map_values /
\* reduce_accumulators_per_key, and the ordered iterator built directly
CallMap ==
  /\ pc = "start"
  /\ op \in {"map", "map_values", "reduce_accumulators_per_key", "ordered_map"}
  /\ st' = [st EXCEPT ![2] =
              CASE op = "map"         -> NewStage("unordered", "fn", "col", None, chunksize)
                [] op = "map_values"  -> NewStage("unordered", "map_values", "col", None, chunksize)
                [] op = "reduce_accumulators_per_key"
                                      -> NewStage("unordered", "merge", "col", None, chunksize)
                [] op = "ordered_map" -> NewStage("ordered", "fn", "col", n_jobs, chunksize)]
  /\ ret' = "handle" /\ handle' = 2 /\ pc' = "returned"
  /\ UNCHANGED <<inputs, colPos, row, zipCur, keys, store, manager, items, genCur,
                 attempts, observed, ended, error, errorAt>>

\* MultiProcLocalPipelineOperations.filter / filter_by_key: the positional
\* arguments after col are (self.chunksize, self.n_jobs)
CallFilter ==
  /\ pc = "start" /\ op \in {"filter", "filter_by_key"}
  /\ st' = [st EXCEPT ![2] =
              NewStage("ordered", IF op = "filter" THEN "fn" ELSE "key_keep",
                       "col", chunksize, n_jobs)]
  /\ ret' = "genexpr" /\ pc' = "returned"
  /\ UNCHANGED <<inputs, colPos, row, zipCur, keys, store, manager, items, handle,
                 genCur, attempts, observed, ended, error, errorAt>>

\* the caller starts to iterate the handle: _LazyMultiProcIterator.__iter__
\* up to the point where it waits for the pool
IterAttempt ==
  /\ pc = "returned" /\ ret = "handle" /\ attempts < MaxAttempts
  /\ attempts' = attempts + 1
  /\ observed' = <<>>
  /\ genCur' = 0
  /\ IF st[handle].flavor = "unordered"
     THEN /\ st' = TriggerUnordered(Cascade(st, handle), handle)
          /\ pc' = "pulling"
     ELSE /\ st' = Cascade(st, handle)
          /\ pc' = IF st[handle].outputs = "None" THEN "o_dispatch" ELSE "o_yield"
  /\ UNCHANGED <<inputs, colPos, row, zipCur, keys, store, manager, items, ret,
                 handle, ended, error, errorAt>>

\* `yield from self._outputs` over the result iterator of imap_unordered
PullNext ==
  LET g   == st[handle]
      arr == Arrivals(g)
  IN /\ pc = "pulling"
     /\ \/ /\ g.pos < Len(arr)
           /\ st' = [st EXCEPT ![handle].pos = @ + 1]
           /\ IF arr[g.pos + 1].ok
              THEN /\ observed' = Append(observed, arr[g.pos + 1].val)
                   /\ UNCHANGED <<pc, ended>>
              ELSE /\ ended' = Append(ended, Ended("raise", observed, arr[g.pos + 1].exc))
                   /\ pc' = "returned"
                   /\ UNCHANGED observed
        \/ /\ g.pos = Len(arr) /\ StageComplete(g)
           /\ ended' = Append(ended, Ended("stop", observed, "none"))
           /\ pc' = "returned"
           /\ UNCHANGED <<st, observed>>
     /\ UNCHANGED <<inputs, colPos, row, zipCur, keys, store, manager, items, ret,
                    handle, genCur, attempts, error, errorAt>>

\* _LazyMultiProcOrderedMapIterator._trigger_iterations, first half:
\* Pool.map takes list(job_inputs) and submits all batches
OrderedDispatch ==
  LET g     == st[2]
      src   == g.job_inputs
      seq   == SrcSeq(src)
      elems == SubSeq(seq, SrcPos(src, 0) + 1, Len(seq))
      cs    == IF g.chunksize = None THEN MapChunk(Len(elems), NumProcs(g))
               ELSE g.chunksize
      tasks == Chunks(elems, cs, 1)
  IN /\ pc = "o_dispatch"
     /\ SrcDone(src)
     /\ st' = [init_pool(Advance(st, src, Len(seq)), 2) EXCEPT
                 ![2].dispatched = @ + 1,
                 ![2].taskq = tasks, ![2].nchunks = Len(tasks), ![2].fedAll = TRUE,
                 ![2].finished = <<>>, ![2].busy = [w \in Workers |-> IdleW]]
     /\ colPos' = AdvanceCol(src, Len(seq))
     /\ pc' = "o_wait"
     /\ UNCHANGED <<inputs, row, zipCur, keys, store, manager, items, ret, handle,
                    genCur, attempts, observed, ended, error, errorAt>>

\* ... second half: Pool.map returns the list, which becomes _outputs
OrderedReturn ==
  LET g == st[2]
  IN /\ pc = "o_wait"
     /\ StageComplete(g)
     /\ \A i \in DOMAIN g.finished : g.finished[i].ok
     /\ st' = [st EXCEPT ![2].outputs = "list", ![2].list = OrderedList(g, 1)]
     /\ genCur' = 0
     /\ pc' = IF ret = "genexpr" THEN "zip_pred" ELSE "o_yield"
     /\ UNCHANGED <<inputs, colPos, row, zipCur, keys, store, manager, items, ret,
                    handle, attempts, observed, ended, error, errorAt>>

\* ... or, once every batch is done, Pool.map re-raises the failure that
\* arrived first; _outputs stays None
OrderedRaise ==
  LET g == st[2]
      failed == {i \in DOMAIN g.finished : ~g.finished[i].ok}
      first == CHOOSE i \in failed : \A j \in failed : i <= j
  IN /\ pc = "o_wait"
     /\ StageComplete(g)
     /\ failed # {}
     /\ ended' = Append(ended, Ended("raise", observed, g.finished[first].exc))
     /\ pc' = IF ret = "genexpr" THEN "done" ELSE "returned"
     /\ UNCHANGED <<inputs, colPos, st, row, zipCur, keys, store, manager, items,
                    ret, handle, genCur, attempts, observed, error, errorAt>>

\* `yield from self._outputs` over the list Pool.map returned
OrderedYield ==
  LET g == st[2]
  IN /\ pc = "o_yield"
     /\ IF genCur < Len(g.list)
        THEN /\ observed' = Append(observed, g.list[genCur + 1])
             /\ genCur' = genCur + 1
             /\ UNCHANGED <<pc, ended>>
        ELSE /\ ended' = Append(ended, Ended("stop", observed, "none"))
             /\ pc' = "returned"
             /\ UNCHANGED <<observed, genCur>>
     /\ UNCHANGED <<inputs, colPos, st, row, zipCur, keys, store, manager, items,
                    ret, handle, attempts, error, errorAt>>


\* the caller starts to consume the generator expression filter returned:
\* zip(col, ordered_predicates) takes iter() of both
GenStart ==
  /\ pc = "returned" /\ ret = "genexpr" /\ attempts = 0
  /\ attempts' = 1
  /\ zipCur' = 0
  /\ pc' = "zip_row"
  /\ UNCHANGED <<inputs, colPos, st, row, keys, store, manager, items, ret, handle,
                 genCur, observed, ended, error, errorAt>>

\* zip's next() on col: the first element of the next pair
ZipNextRow ==
  LET seq == SrcSeq("col")
      p   == SrcPos("col", zipCur)
  IN /\ pc = "zip_row"
     /\ \/ /\ IsLazy("col") /\ st[1].outputs = "None"
           /\ st' = TriggerUnordered(st, 1)
           /\ UNCHANGED <<colPos, zipCur, row, pc, ended>>
        \/ /\ IsLazy("col") => st[1].outputs # "None"
           /\ p < Len(seq)
           /\ row' = seq[p + 1]
           /\ st' = Advance(st, "col", p + 1)
           /\ colPos' = AdvanceCol("col", p + 1)
           /\ zipCur' = p + 1
           /\ pc' = "zip_pred"
           /\ UNCHANGED ended
        \/ /\ IsLazy("col") => st[1].outputs # "None"
           /\ p = Len(seq) /\ SrcDone("col")
           /\ ended' = Append(ended, Ended("stop", observed, "none"))
           /\ pc' = "done"
           /\ UNCHANGED <<colPos, st, zipCur, row>>
     /\ UNCHANGED <<inputs, keys, store, manager, items, ret, handle, genCur,
                    attempts, observed, error, errorAt>>

\* zip's next() on ordered_predicates, and the generator expression's `if keep`
ZipNextPred ==
  LET g == st[2]
  IN /\ pc = "zip_pred"
     /\ IF g.outputs = "None"
        THEN /\ st' = Cascade(st, 2)
             /\ pc' = "o_dispatch"
             /\ UNCHANGED <<genCur, observed, ended>>
        ELSE /\ st' = st
             /\ IF genCur < Len(g.list)
                THEN LET item == g.list[genCur + 1]
                         keep == IF op = "filter" THEN Truthy(item) ELSE item[2]
                         out  == IF op = "filter" THEN row ELSE <<item[1], row>>
                     IN /\ genCur' = genCur + 1
                        /\ observed' = IF keep THEN Append(observed, out) ELSE observed
                        /\ pc' = "zip_row"
                        /\ UNCHANGED ended
                ELSE /\ ended' = Append(ended, Ended("stop", observed, "none"))
                     /\ pc' = "done"
                     /\ UNCHANGED <<genCur, observed>>
     /\ UNCHANGED <<inputs, colPos, row, zipCur, keys, store, manager, items, ret,
                    handle, attempts, error, errorAt>>

RECURSIVE SortedSeq(_)
SortedSeq(S) == \* the iteration order of a Python set / dict of small ints
  IF S = {} THEN <<>>
  ELSE LET m == CHOOSE x \in S : \A y \in S : x <= y
       IN <<m>> \o SortedSeq(S \ {m})

\* group_by_key / count_per_element up to `list(self.map(col, insert_row))`:
\* the pass over col for the key set, the manager and its dict, the map
KeysPass ==
  LET seq   == SrcSeq("col")
      elems == SubSeq(seq, SrcPos("col", 0) + 1, Len(seq))
      ks    == IF op = "count_per_element" THEN Range(elems)
               ELSE {elems[i][1] : i \in DOMAIN elems}
      job   == IF op = "count_per_element" THEN "count_row" ELSE "insert_row"
      st1   == [Advance(st, "col", Len(seq)) EXCEPT
                  ![2] = NewStage("unordered", job, "col", None, chunksize)]
  IN /\ pc = "start"
     /\ op \in {"group_by_key", "count_per_element", "sample_fixed_per_key"}
     /\ \/ /\ IsLazy("col") /\ st[1].outputs = "None"
           /\ st' = TriggerUnordered(st, 1)
           /\ UNCHANGED <<colPos, keys, manager, store, pc>>
        \/ /\ IsLazy("col") => st[1].outputs # "None"
           /\ SrcDone("col")
           /\ keys' = ks
           /\ colPos' = AdvanceCol("col", Len(seq))
           /\ manager' = "alive"
           /\ store' = IF op = "count_per_element" THEN [k \in ks |-> 0]
                       ELSE [k \in ks |-> <<>>]
           /\ st' = TriggerUnordered(Cascade(st1, 2), 2)
           /\ pc' = "list_wait"
     /\ UNCHANGED <<inputs, row, zipCur, items, ret, handle, genCur, attempts,
                    observed, ended, error, errorAt>>

\* a call that goes on to copy the store without waiting for the results
ListWaitNoBlock ==
  /\ pc = "list_wait"
  /\ st' = [st EXCEPT ![2].pos = Len(Arrivals(st[2]))]
  /\ pc' = "copy"
  /\ UNCHANGED <<inputs, colPos, row, zipCur, keys, items, ret, handle, genCur,
                 attempts, observed, ended, error, errorAt, manager, store>>

\* list(...) returns when every result has arrived, or raises the failure
\* of a task; leaving the with block on an exception shuts the manager down
ListWait ==
  LET g   == st[2]
      arr == Arrivals(g)
      failed == {i \in DOMAIN arr : ~arr[i].ok}
  IN /\ pc = "list_wait"
     /\ \/ /\ failed # {}
           /\ error' = arr[CHOOSE i \in failed : \A j \in failed : i <= j].exc
           /\ errorAt' = "call"
           /\ manager' = "down"
           /\ store' = <<>>
           /\ pc' = "done"
           /\ UNCHANGED st
        \/ /\ failed = {} /\ StageComplete(g)
           /\ st' = [st EXCEPT ![2].pos = Len(arr)]
           /\ pc' = "copy"
           /\ UNCHANGED <<error, errorAt, manager, store>>
     /\ UNCHANGED <<inputs, colPos, row, zipCur, keys, items, ret, handle, genCur,
                    attempts, observed, ended>>

\* items = [(k, list(v)) for k, v in dict(results_dict).items()]
\* items = list(results_dict.items())
CopyItems ==
  LET ks == SortedSeq(DOMAIN store)
  IN /\ pc = "copy"
     /\ items' = [j \in DOMAIN ks |-> <<ks[j], store[ks[j]]>>]
     /\ pc' = "exit"
     /\ UNCHANGED <<inputs, colPos, st, row, zipCur, keys, store, manager, ret,
                    handle, genCur, attempts, observed, ended, error, errorAt>>

\* the with block ends, then `return items`; sample_fixed_per_key goes on
\* with `return self.map(groups, mapped_fn, stage_name)`
ExitManager ==
  /\ pc = "exit"
  /\ manager' = "down"
  /\ store' = <<>>
  /\ IF op = "sample_fixed_per_key"
     THEN /\ st' = [st EXCEPT ![3] = NewStage("unordered", "sample", "groups",
                                              None, chunksize)]
          /\ ret' = "handle" /\ handle' = 3 /\ pc' = "returned"
     ELSE /\ ret' = "list" /\ pc' = "done"
          /\ UNCHANGED <<st, handle>>
  /\ UNCHANGED <<inputs, colPos, row, zipCur, keys, items, genCur, attempts,
                 observed, ended, error, errorAt>>

Next ==
  \/ CallMap
  \/ CallFilter
  \/ IterAttempt
  \/ PullNext
  \/ OrderedDispatch
  \/ OrderedReturn
  \/ OrderedRaise
  \/ OrderedYield
  \/ GenStart
  \/ ZipNextRow
  \/ ZipNextPred
  \/ KeysPass
  \/ ListWait
  \/ CopyItems
  \/ ExitManager
  \/ \E s \in Stages : Feed(s)
  \/ \E s \in Stages, w \in Workers : WorkerTake(s, w)
  \/ \E s \in Stages, w \in Workers : WorkerApply(s, w)
  \/ \E s \in Stages, w \in Workers : WorkerInsert(s, w)
  \/ \E s \in Stages, w \in Workers : WorkerCountRead(s, w)
  \/ \E s \in Stages, w \in Workers : WorkerCountWrite(s, w)

Spec == Init /\ [][Next]_vars

\* ------------------------------------------------ one operator family each
\* the operators that return a handle: map, map_values, filter and
\* filter_by_key
HandleOps == {"map", "map_values", "filter", "filter_by_key"}

InitHandles == Init /\ op \in HandleOps

NextHandles ==
  \/ CallMap
  \/ CallFilter
  \/ IterAttempt
  \/ PullNext
  \/ OrderedDispatch
  \/ OrderedReturn
  \/ OrderedRaise
  \/ GenStart
  \/ ZipNextRow
  \/ ZipNextPred
  \/ \E s \in Stages : Feed(s)
  \/ \E s \in Stages, w \in Workers : WorkerTake(s, w)
  \/ \E s \in Stages, w \in Workers : WorkerApply(s, w)

SpecHandles == InitHandles /\ [][NextHandles]_vars

\* the unordered handles: map and map_values
MapOps == {"map", "map_values"}

InitMap == Init /\ op \in MapOps

NextMap ==
  \/ CallMap
  \/ IterAttempt
  \/ PullNext
  \/ \E s \in Stages : Feed(s)
  \/ \E s \in Stages, w \in Workers : WorkerTake(s, w)
  \/ \E s \in Stages, w \in Workers : WorkerApply(s, w)

SpecMap == InitMap /\ [][NextMap]_vars

\* the order-preserving iterator: on its own, and behind filter and
\* filter_by_key
OrderedOps == {"ordered_map", "filter", "filter_by_key"}

InitOrdered == Init /\ op \in OrderedOps

NextOrdered ==
  \/ CallMap
  \/ CallFilter
  \/ IterAttempt
  \/ OrderedDispatch
  \/ OrderedReturn
  \/ OrderedRaise
  \/ OrderedYield
  \/ GenStart
  \/ ZipNextRow
  \/ ZipNextPred
  \/ \E s \in Stages : Feed(s)
  \/ \E s \in Stages, w \in Workers : WorkerTake(s, w)
  \/ \E s \in Stages, w \in Workers : WorkerApply(s, w)

SpecOrdered == InitOrdered /\ [][NextOrdered]_vars

\* the operators that force evaluation through the shared store
StoreOps == {"group_by_key", "count_per_element"}

InitStore == Init /\ op \in StoreOps

NextStore ==
  \/ KeysPass
  \/ ListWait
  \/ CopyItems
  \/ ExitManager
  \/ \E s \in Stages : Feed(s)
  \/ \E s \in Stages, w \in Workers : WorkerTake(s, w)
  \/ \E s \in Stages, w \in Workers : WorkerApply(s, w)
  \/ \E s \in Stages, w \in Workers : WorkerInsert(s, w)
  \/ \E s \in Stages, w \in Workers : WorkerCountRead(s, w)
  \/ \E s \in Stages, w \in Workers : WorkerCountWrite(s, w)

SpecStore == InitStore /\ [][NextStore]_vars


\* ================================================================= claims
\* the elements col stands for, in the order col hands them out (for a map
\* handle: the order in which its results arrived)
ColElems == SrcSeq("col")

FnTotalOn(c) == \A i \in DOMAIN c : FnApply(fn, c[i]).ok

\* the (key, value) entries of a result, value lists compared as multisets
EntryBags(r) == SeqToBag([i \in DOMAIN r |-> <<r[i][1], SeqToBag(r[i][2])>>])

KeysOf(c) == {c[i][1] : i \in DOMAIN c}

OnePerKey(r, c) ==
  /\ \A i, j \in DOMAIN r : r[i][1] = r[j][1] => i = j
  /\ {r[i][1] : i \in DOMAIN r} = KeysOf(c)

\* C1: on the parallel engine, whatever col is (list, single-pass iterator,
\* handle of another operator) and however the workers interleave, consuming
\* filter(col, p) yields exactly the elements of col for which p is true,
\* in their original relative order.
C1_FilterYieldsSubsequence ==
  (/\ op = "filter" /\ pc = "done"
   /\ Len(ended) = 1 /\ FnTotalOn(ColElems))
  => /\ ended[1].how = "stop"
     /\ ended[1].out = LocalFilter(ColElems, fn)

\* C2: on the parallel engine, whatever col is, group_by_key returns exactly
\* one entry per distinct key, and the values of each entry are, as a
\* multiset, the values the input carried for that key.
C2_GroupByKeyComplete ==
  (op = "group_by_key" /\ pc = "done")
  => /\ ret = "list"
     /\ OnePerKey(items, ColElems)
     /\ \A i \in DOMAIN items :
          SeqToBag(items[i][2]) = SeqToBag(ValuesOf(ColElems, items[i][1]))

\* C3: on the parallel engine, for every interleaving of the worker tasks
\* that increment the shared store, count_per_element returns one pair per
\* distinct element whose count is the number of occurrences of the element:
\* no increment is lost to a concurrent increment of the same key.  Stated
\* for the in-memory inputs the claim covers.
C3_CountPerElementExact ==
  (op = "count_per_element" /\ colKind = "list" /\ pc = "done")
  => /\ ret = "list"
     /\ Len(items) = Cardinality(Range(col))
     /\ \A i \in DOMAIN items : items[i] = <<items[i][1], CountOf(col, items[i][1])>>
     /\ {items[i][1] : i \in DOMAIN items} = Range(col)

\* C4: on the parallel engine the output of reduce_accumulators_per_key has
\* exactly one (key, accumulator) pair per distinct key, the accumulator
\* being the merge of all input accumulators of that key.
C4_ReduceOnePerKey ==
  (op = "reduce_accumulators_per_key" /\ Len(ended) >= 1)
  => /\ ended[1].how = "stop"
     /\ OnePerKey(ended[1].out, ColElems)
     /\ \A i \in DOMAIN ended[1].out :
          ended[1].out[i][2] = merge(ValuesOf(ColElems, ended[1].out[i][1]))

\* C5: when a worker task raises, the operator call or the consumption of
\* its handle fails with an error that carries the worker's failure (the
\* model takes the re-raised failure itself for that error), and the caller
\* has observed no element of the operator's output before it surfaces.
C5_FailureSurfacesBeforeAnyOutput ==
  /\ \A i \in DOMAIN ended :
       ended[i].how = "raise" => ended[i].exc # "none" /\ ended[i].out = <<>>
  /\ error # "none" => ret = "none"

\* the exceptions that count as an InvalidArgument-kind error
InvalidArgumentKinds == {"InvalidArgument", "ValueError", "TypeError"}

\* C6: on every backend filter_by_key with keys_to_keep None fails at call
\* time with an InvalidArgument-kind error, for every col including the
\* empty one; no handle is returned and no work is dispatched.
C6_MissingKeysFailAtCall ==
  (op = "filter_by_key" /\ keys_to_keep.none /\ pc # "start")
  => /\ ~LocalFilterByKey(col, keys_to_keep).ok
     /\ LocalFilterByKey(col, keys_to_keep).exc \in InvalidArgumentKinds
     /\ error \in InvalidArgumentKinds /\ errorAt = "call"
     /\ ret = "none"
     /\ st[2].dispatched = 0

\* the operators both backends implement, on in-memory input, once the
\* parallel result is fully consumed: the two results as multisets
BackendsAgree ==
  CASE op \in {"map", "map_values"} ->
         (Len(ended) >= 1 /\ ended[1].how = "stop" /\ FnTotalOn(IF op = "map" THEN col ELSE [i \in DOMAIN col |-> col[i][2]]))
         => LET loc == IF op = "map" THEN LocalMap(col, fn) ELSE LocalMapValues(col, fn)
            IN SeqToBag(ended[1].out) = SeqToBag([i \in DOMAIN loc |-> loc[i].val])
    [] op = "filter" ->
         (Len(ended) >= 1 /\ FnTotalOn(col))
         => SeqToBag(ended[1].out) = SeqToBag(LocalFilter(col, fn))
    [] op = "filter_by_key" ->
         (Len(ended) >= 1 /\ ~keys_to_keep.none)
         => SeqToBag(ended[1].out) = SeqToBag(LocalFilterByKey(col, keys_to_keep).val)
    [] op = "group_by_key" ->
         pc = "done" => EntryBags(items) = EntryBags(LocalGroupByKey(col))
    [] op = "count_per_element" ->
         pc = "done" => SeqToBag(items) = SeqToBag(LocalCountPerElement(col))
    [] op = "sample_fixed_per_key" ->
         (Len(ended) >= 1 /\ ended[1].how = "stop")
         => EntryBags(ended[1].out) \in {EntryBags(r) : r \in LocalSampleFixedPerKey(col, n)}
    [] OTHER -> TRUE

\* C7: for every operator both backends implement and every finite
\* in-memory input, the sequential result and the fully consumed parallel
\* result are equal as multisets, under every interleaving of the workers.
C7_BackendsEqualAsMultisets ==
  colKind = "list" => BackendsAgree

\* what C8 asks of the values returned for key k out of the values vs
SampleOk(smp, vs) ==
  /\ Len(smp) <= n
  /\ Len(vs) <= n => SeqToBag(smp) = SeqToBag(vs)
  /\ SeqToBag(smp) \sqsubseteq SeqToBag(vs)

SampleResultOk(r, c) ==
  /\ OnePerKey(r, c)
  /\ \A i \in DOMAIN r : SampleOk(r[i][2], ValuesOf(c, r[i][1]))

\* C8: for every key of the input, sample_fixed_per_key(col, n) on either
\* backend returns at most n values of the key, all of them when the key
\* has n or fewer, no input occurrence twice, and only values of that key.
C8_SampleBoundedWithoutReplacement ==
  (op = "sample_fixed_per_key" /\ Len(ended) >= 1 /\ ended[1].how = "stop")
  => /\ SampleResultOk(ended[1].out, ColElems)
     /\ \A r \in LocalSampleFixedPerKey(col, n) : SampleResultOk(r, col)

\* C9: after a lazy iterator has been consumed to exhaustion, every later
\* iteration attempt on it delivers the same results again or fails; it
\* never delivers a different sequence and never dispatches again.
C9_ReiterationReplaysOrFails ==
  (ret = "handle" /\ Len(ended) >= 1 /\ ended[1].how = "stop")
  => /\ \A i \in 2..Len(ended) :
          ended[i].how = "raise" \/ ended[i].out = ended[1].out
     /\ st[handle].dispatched <= 1

\* Created (0), Triggered (1), Exhausted (2)
Lifecycle(g) ==
  IF g.outputs = "None" THEN 0
  ELSE IF g.outputs = "iter" /\ StageComplete(g) /\ g.pos = Len(Arrivals(g)) THEN 2
  ELSE 1

\* C10: for every lazy iterator and every sequence of iteration attempts and
\* cascade triggers on it, the pool is instantiated at most once, the task
\* is dispatched at most once, and the state only moves forward.
C10_TriggerAtMostOnce ==
  [][\A s \in Stages : /\ st'[s].pools <= 1
                       /\ st'[s].dispatched <= 1
                       /\ Lifecycle(st[s]) <= Lifecycle(st'[s])]_vars

\* C11: for an order-preserving iterator over an in-memory input, whatever
\* order the workers finish their batches in and whatever the batch size,
\* the i-th result is the task function applied to the i-th input, and the
\* results are delivered to the consumer in that order.
C11_OrderedResultsByPosition ==
  (st[2].flavor = "ordered" /\ colKind = "list")
  => /\ st[2].outputs = "list"
        => /\ Len(st[2].list) = Len(col)
           /\ \A i \in DOMAIN col : Ok(st[2].list[i]) \in JobResults(st[2].job, col[i])
     /\ op = "ordered_map"
        => /\ Len(observed) <= Len(col)
           /\ \A i \in DOMAIN observed : Ok(observed[i]) = FnApply(fn, col[i])
           /\ \A a \in DOMAIN ended :
                ended[a].how = "stop" => Len(ended[a].out) = Len(col)

\* the second batch finished before the first, and the consumer still got
\* the results in input order
C11_Witness ==
  /\ op = "ordered_map" /\ colKind = "list" /\ fn = "ident"
  /\ Len(col) = 2 /\ col[1] # col[2]
  /\ Len(st[2].finished) = 2 /\ st[2].finished[1].id = 2
  /\ Len(ended) = 1 /\ ended[1].how = "stop" /\ ended[1].out = col

C13_NothingRunsBeforeFirstIteration ==
  op \in HandleOps
  => /\ attempts = 0
        => \A s \in Stages :
             /\ st[s].pools = 0 /\ st[s].dispatched = 0
             /\ st[s].outputs = "None"
             /\ st[s].taskq = <<>> /\ st[s].nchunks = 0
     /\ pc # "start" => ret \in {"handle", "genexpr"} /\ error = "none"
     /\ (ret = "handle" /\ attempts >= 1)
        => st[handle].pools = 1 /\ st[handle].dispatched = 1

\* map has returned its handle for a non-empty input and nothing has run
C13_Witness ==
  /\ op = "map" /\ pc = "returned" /\ ret = "handle" /\ attempts = 0
  /\ Len(col) = 2
  /\ st[2].flavor = "unordered" /\ st[2].pools = 0

\* the positions of col whose task has completed in stage g over the list
\* col: those of the finished batches, and those a busy worker is past
BatchPositions(g, id) ==
  {i \in DOMAIN col : (id - 1) * g.chunksize < i /\ i <= id * g.chunksize}

CompletedPositions(g) ==
  UNION ({BatchPositions(g, g.finished[i].id) : i \in DOMAIN g.finished}
         \cup {{i \in BatchPositions(g, g.busy[w].id) :
                   i <= (g.busy[w].id - 1) * g.chunksize + Len(g.busy[w].acc)} :
                 w \in {v \in Workers : g.busy[v].id # 0}})

\* C14: in group_by_key over an in-memory input, under every interleaving
\* of the worker tasks, an append is one atomic step against the store: at
\* every moment the entry of key k holds exactly the values of the insert
\* tasks for k that have completed, so at the end no value is missing or
\* duplicated.
C14_EntryHoldsCompletedAppends ==
  (op = "group_by_key" /\ colKind = "list")
  => /\ manager = "alive"
        => /\ DOMAIN store = KeysOf(col)
           /\ \A k \in DOMAIN store :
                SeqToBag(store[k]) =
                  SeqToBag(SelectIdx([i \in DOMAIN col |-> col[i][2]],
                                     {i \in CompletedPositions(st[2]) : col[i][1] = k}))
     /\ pc = "done"
        => /\ ret = "list" /\ error = "none"
           /\ EntryBags(items) = EntryBags(LocalGroupByKey(col))

\* two workers appended to the same key, the second batch first
C14_Witness ==
  /\ op = "group_by_key" /\ colKind = "list" /\ manager = "alive"
  /\ Len(col) = 2 /\ col[1][1] = col[2][1] /\ col[1][2] # col[2][2]
  /\ Len(st[2].finished) = 2 /\ st[2].finished[1].id = 2
  /\ store[col[1][1]] = <<col[2][2], col[1][2]>>

\* the number of elements whose task has completed in stage g
RECURSIVE CompletedCount(_, _)
CompletedCount(g, i) ==
  IF i = 0 THEN 0 ELSE Len(g.finished[i].vals) + CompletedCount(g, i - 1)

ConfiguredProcs == IF n_jobs = None THEN HostCpus ELSE n_jobs
ConfiguredChunk == chunksize

\* the batches of stage g that exist somewhere: queued, in a worker, done
BatchSizes(g) ==
  {Len(g.taskq[i].elems) : i \in DOMAIN g.taskq}
  \cup {Len(g.busy[w].rest) + Len(g.busy[w].acc) : w \in {v \in Workers : g.busy[v].id # 0}}
  \cup {Len(g.finished[i].vals) : i \in {j \in DOMAIN g.finished : g.finished[j].ok}}

\* C16: every pool an operator of the engine instantiates has exactly
\* pool_size workers (the host's parallelism when none is given) and batches
\* chunk_size elements per dispatch (the last batch may be shorter).
C16_PoolsFollowTheConfiguration ==
  \A s \in {2, 3} :
    (op # "ordered_map" /\ st[s].pools > 0)
    => /\ NumProcs(st[s]) = ConfiguredProcs
       /\ \A w \in Workers : st[s].func[w] # "none" <=> w \in 1..ConfiguredProcs
       /\ \A b \in BatchSizes(st[s]) : b <= ConfiguredChunk
       /\ (StageComplete(st[s]) /\ \A i \in DOMAIN st[s].finished : st[s].finished[i].ok)
          => Cardinality({i \in DOMAIN st[s].finished :
                            Len(st[s].finished[i].vals) < ConfiguredChunk}) <= 1

\* the consumer has been told that the results are over, by the end of the
\* iteration or by the failure of a worker
DeliveryOver == pc = "done" \/ (pc = "returned" /\ Len(ended) >= 1)

\* C17: once the results of an operator have been fully delivered, or the
\* pool has aborted on a worker's failure, no pool that a lazy iterator
\* instantiated for it remains live.
C17_NoPoolLiveAfterDelivery ==
  DeliveryOver => \A s \in Stages : LivePools(st[s]) = 0

\* C18: on the parallel engine, for an in-memory col, an in-memory
\* keys_to_keep and every order in which the workers finish, consuming
\* filter_by_key yields exactly the pairs (extract(x), x) of the elements x
\* of col whose key is kept, in col's order; no pair couples an element
\* with the key or the keep flag of another element.
C18_FilterByKeyPairsEachElementWithItsKey ==
  (op = "filter_by_key" /\ colKind = "list" /\ ~keys_to_keep.none)
  => /\ \A i \in DOMAIN observed :
          /\ observed[i][1] = partition_extractor(observed[i][2])
          /\ observed[i][1] \in keys_to_keep.set
     /\ \A a \in DOMAIN ended :
          /\ ended[a].how = "stop"
          /\ ended[a].out = LocalFilterByKey(col, keys_to_keep).val

\* two rows with different keys, one key kept, the second batch finished
\* first, and the consumer got the kept row with its own key
C18_Witness ==
  /\ op = "filter_by_key" /\ colKind = "list" /\ ~keys_to_keep.none
  /\ Len(col) = 2 /\ col[1][1] # col[2][1]
  /\ keys_to_keep.set = {col[2][1]}
  /\ Len(st[2].finished) = 2 /\ st[2].finished[1].id = 2
  /\ Len(ended) = 1 /\ ended[1].how = "stop"
  /\ ended[1].out = <<(<<col[2][1], col[2]>>)>>

\* what the sequential map gives for the input, element by element
MapExpected == IF op = "map" THEN LocalMap(col, fn) ELSE LocalMapValues(col, fn)

\* C19: for the handle of map over an in-memory input, when no task raises,
\* under every order of worker completion and every batch size, the
\* delivered results are, as a multiset, fn(x) over the input elements x:
\* none is dropped, none is delivered twice; only the order may differ.
C19_UnorderedDeliversEachResultOnce ==
  (/\ op \in MapOps /\ colKind = "list"
   /\ \A i \in DOMAIN col : MapExpected[i].ok)
  => LET want == SeqToBag([i \in DOMAIN col |-> MapExpected[i].val])
     IN /\ (attempts = 1 /\ pc = "pulling") => SeqToBag(observed) \sqsubseteq want
        /\ Len(ended) >= 1
           => /\ ended[1].how = "stop"
              /\ SeqToBag(ended[1].out) = want

\* both results were delivered, in the opposite order of the input
C19_Witness ==
  /\ op = "map" /\ colKind = "list" /\ fn = "ident"
  /\ Len(col) = 2 /\ col[1] # col[2]
  /\ Len(ended) = 1 /\ ended[1].how = "stop"
  /\ ended[1].out = <<col[2], col[1]>>

\* C20: when several pools are live at the same time, every work unit a
\* worker of a pool executes is evaluated with the task function installed
\* for that pool when it was created: the worker's global callable is bound
\* once and is never overwritten by another pool or a later stage.
C20_WorkersKeepTheirPoolsFunction ==
  \A s \in Stages : \A w \in Workers :
    /\ (st[s].pools > 0 /\ w \in 1..NumProcs(st[s])) => st[s].func[w] = st[s].job
    /\ st[s].busy[w].id # 0 => st[s].func[w] = st[s].job
    /\ st[s].pools = 0 => st[s].func[w] = "none"

\* a map over the handle of another map: a worker of each pool is busy at
\* the same time, each with its own pool's function
C20_Witness ==
  /\ colKind = "lazy" /\ op = "map_values"
  /\ st[1].job # st[2].job
  /\ \E v, w \in Workers :
       /\ st[1].busy[v].id # 0 /\ st[1].func[v] = st[1].job
       /\ st[2].busy[w].id # 0 /\ st[2].func[w] = st[2].job

====
